---- MODULE Spec2Model ----
(***************************************************************************)
(* Cursor animation scheduling core of crates/editor:                      *)
(* AnimatedCursorPosition (the interpolator) and CursorAnimationManager    *)
(* (the controller), with the host's timers, redraw requests and settings  *)
(* notifications as the environment.                                       *)
(***************************************************************************)
EXTENDS Integers, Sequences, FiniteSets, Bags, TLC

(***************************************************************************)
(* f32 arithmetic (IEEE-754 binary32, round to nearest, ties to even).     *)
(* A value is [m |-> significand, e |-> exponent] and stands for m * 2^e,  *)
(* with 2^23 <= |m| < 2^24, or m = 0 and e = 0 for zero.  Pixels is a      *)
(* wrapper of f32 whose +, - and * are the f32 ones.  The values met here  *)
(* lie far inside the normal range, and -0.0 == 0.0 under PartialEq, so    *)
(* neither subnormals, infinities nor the sign of zero are represented.    *)
(* Every intermediate integer stays below 2^31.                            *)
(***************************************************************************)
Abs(n) == IF n < 0 THEN -n ELSE n

Sgn(n) == IF n < 0 THEN -1 ELSE 1

RECURSIVE BitLen(_)
BitLen(n) == IF n = 0 THEN 0 ELSE 1 + BitLen(n \div 2)

F32Zero == [m |-> 0, e |-> 0]

\* The f32 nearest to sgn * (n + f) * 2^e, where f = 0 unless sticky, and
\* 0 < f < 1 when sticky (then n has at least 25 bits).
F32Round(sgn, n, sticky, e) ==
  IF n = 0 THEN F32Zero
  ELSE LET k == BitLen(n) IN
    IF k <= 24
    THEN [m |-> sgn * n * 2^(24 - k), e |-> e - (24 - k)]
    ELSE LET sh   == k - 24
             q    == n \div 2^sh
             r    == n % 2^sh
             half == 2^(sh - 1)
             up   == r > half \/ (r = half /\ (sticky \/ q % 2 = 1))
             q1   == IF up THEN q + 1 ELSE q
         IN  IF q1 = 2^24
             THEN [m |-> sgn * 2^23, e |-> e + sh + 1]
             ELSE [m |-> sgn * q1, e |-> e + sh]

\* n as f32 (u128 as f32, or a whole number of pixels), |n| < 2^30
F32FromInt(n) == F32Round(Sgn(n), Abs(n), FALSE, 0)

F32One == F32FromInt(1)

F32Neg(a) == [a EXCEPT !.m = -a.m]

F32Add(a, b) ==
  IF a.m = 0 THEN b
  ELSE IF b.m = 0 THEN a
  ELSE LET hi == IF a.e >= b.e THEN a ELSE b
           lo == IF a.e >= b.e THEN b ELSE a
           d  == hi.e - lo.e
       IN  IF d <= 5
           THEN LET s == hi.m * 2^d + lo.m
                IN  F32Round(Sgn(s), Abs(s), FALSE, lo.e)
           ELSE LET sh   == IF d - 5 > 25 THEN 25 ELSE d - 5
                    A    == Abs(hi.m) * 32
                    Bq   == Abs(lo.m) \div 2^sh
                    Bs   == Abs(lo.m) % 2^sh # 0
                    same == Sgn(hi.m) = Sgn(lo.m)
                    n    == IF same THEN A + Bq
                            ELSE IF Bs THEN A - Bq - 1 ELSE A - Bq
                IN  F32Round(Sgn(hi.m), n, Bs, hi.e - 5)

F32Sub(a, b) == F32Add(a, F32Neg(b))

\* the 48-bit product of the significands is built from 12-bit limbs
F32Mul(a, b) ==
  IF a.m = 0 \/ b.m = 0 THEN F32Zero
  ELSE LET am  == Abs(a.m)
           bm  == Abs(b.m)
           ah  == am \div 4096
           al  == am % 4096
           bh  == bm \div 4096
           bl  == bm % 4096
           mid == ah * bl + al * bh
           los == (mid % 4096) * 4096 + al * bl
           hi  == ah * bh + (mid \div 4096) + (los \div 16777216)
           lo  == los % 16777216
           n   == hi * 4 + (lo \div 4194304)
       IN  F32Round(Sgn(a.m) * Sgn(b.m), n, lo % 4194304 # 0, a.e + b.e + 22)

\* long division of the significands: i more quotient bits of r / b
RECURSIVE QuoBits(_, _, _, _)
QuoBits(r, b, i, q) ==
  IF i = 0 THEN <<q, r>>
  ELSE LET bit == IF r >= b THEN 1 ELSE 0
       IN  QuoBits(2 * (r - bit * b), b, i - 1, 2 * q + bit)

F32Div(a, b) ==
  IF a.m = 0 THEN F32Zero
  ELSE LET qr == QuoBits(Abs(a.m), Abs(b.m), 27, 0)
       IN  F32Round(Sgn(a.m) * Sgn(b.m), qr[1], qr[2] # 0, a.e - b.e - 26)

(***************************************************************************)
(* Bounds of the model and constants of the program.                       *)
(***************************************************************************)
\* clock units per millisecond: Instant and Duration are finer than 1 ms
UnitsPerMs == 2

\* the controller's clock advances in steps of this many milliseconds
TimeStepMs == 6

\* the controller is observed for this many milliseconds
MaxTimeMs == 126

\* effective start_animation calls per run
MaxEpoch == 2

\* a free-standing interpolator is observed for this many milliseconds
MaxElapsedMs == 122

ANIMATION_DURATION_MS == 120

FRAME_INTERVAL_MS == 8

\* Duration::from_millis
from_millis(ms) == ms * UnitsPerMs

\* Duration::as_millis: whole milliseconds, the rest dropped
as_millis(d) == d \div UnitsPerMs

\* Point<Pixels> with whole-pixel coordinates
Pt(x, y) == [x |-> F32FromInt(x), y |-> F32FromInt(y)]

\* the points the controller is driven with
Points == {Pt(0, 0), Pt(120, -30)}

\* the end points of a free-standing interpolator
InterpPoints == {Pt(0, 0), Pt(120, 0), Pt(-7, 30), Pt(500, -333)}

None == <<>>

Some(v) == <<v>>

VARIABLES
  now,              \* the monotonic clock (Instant::now()), in clock units
  animation_epoch,  \* CursorAnimationManager.animation_epoch
  enabled,          \* CursorAnimationManager.enabled
  active_animation, \* CursorAnimationManager.active_animation: None or Some(a)
  pending,          \* bag of the spawned wake-up tasks not yet resumed
  alive,            \* the entity owning the controller still exists
  interp,           \* a free-standing AnimatedCursorPosition, or None
  last              \* the last operation: its name, arguments, result, and
                    \* how many redraws (cx.notify) and wake-ups (cx.spawn)
                    \* it asked the host for

vars == <<now, animation_epoch, enabled, active_animation, pending, alive,
          interp, last>>

Op(name, arg, ret, notify, spawn) ==
  [op |-> name, arg |-> arg, ret |-> ret, notify |-> notify, spawn |-> spawn]

\* a bool as it stands among the arguments or results of an operation
Flag(v) == [flag |-> v]

(***************************************************************************)
(* AnimatedCursorPosition                                                  *)
(***************************************************************************)
\* AnimatedCursorPosition::new at instant t
new_position(start, end, t) ==
  [start_point |-> start, end_point |-> end, start_time |-> t,
   duration |-> from_millis(ANIMATION_DURATION_MS)]

\* Instant::elapsed at instant t
elapsed(a, t) == t - a.start_time

is_complete(a, t) == elapsed(a, t) >= a.duration

\* f32::powi(3): x * x * x, each product rounded
powi3(x) == F32Mul(F32Mul(x, x), x)

\* a quadratic ease-out
ease_out_quad(t) ==
  F32Sub(F32One, F32Mul(F32Sub(F32One, t), F32Sub(F32One, t)))

ease_out_cubic(t) == F32Sub(F32One, powi3(F32Sub(F32One, t)))

\* current_position without the branch taken once the duration has elapsed
current_position_unclamped(a, t) ==
  LET progress == F32Div(F32FromInt(as_millis(elapsed(a, t))),
                         F32FromInt(as_millis(a.duration)))
      smooth_progress == ease_out_cubic(progress)
  IN  [x |-> F32Add(a.start_point.x,
                    F32Mul(F32Sub(a.end_point.x, a.start_point.x),
                           smooth_progress)),
       y |-> F32Add(a.start_point.y,
                    F32Mul(F32Sub(a.end_point.y, a.start_point.y),
                           smooth_progress))]

current_position(a, t) ==
  IF elapsed(a, t) >= a.duration
  THEN a.end_point
  ELSE LET progress == F32Div(F32FromInt(as_millis(elapsed(a, t))),
                              F32FromInt(as_millis(a.duration)))
           smooth_progress == ease_out_cubic(progress)
       IN  [x |-> F32Add(a.start_point.x,
                         F32Mul(F32Sub(a.end_point.x, a.start_point.x),
                                smooth_progress)),
            y |-> F32Add(a.start_point.y,
                         F32Mul(F32Sub(a.end_point.y, a.start_point.y),
                                smooth_progress))]

(***************************************************************************)
(* CursorAnimationManager                                                  *)
(***************************************************************************)
\* current_cursor_position without the check of completion
current_cursor_position_to_end(static_position) ==
  IF ~enabled THEN static_position
  ELSE IF active_animation # None
       THEN current_position(active_animation[1], now)
       ELSE static_position

\* the value current_cursor_position(static_position) returns
current_cursor_position(static_position) ==
  IF ~enabled THEN static_position
  ELSE IF active_animation # None /\ ~is_complete(active_animation[1], now)
       THEN current_position(active_animation[1], now)
       ELSE static_position

\* is_animating without the check of completion
is_animating_while_stored == enabled /\ active_animation # None

\* the value is_animating() returns
is_animating ==
  enabled /\ (IF active_animation = None THEN FALSE
              ELSE ~is_complete(active_animation[1], now))

\* a wake-up task as spawned by schedule_animation_frame.  epoch is the
\* value the closure captured, delay what is left of its timer.  seen_disable
\* is history only (no code reads it): a disable ran while the task was
\* pending.
Task(epoch) ==
  [epoch |-> epoch, delay |-> from_millis(FRAME_INTERVAL_MS),
   seen_disable |-> FALSE]

\* the tasks schedule_animation_frame(epoch) spawns
schedule_animation_frame(epoch) ==
  IF ~enabled THEN EmptyBag ELSE SetToBag({Task(epoch)})

RECURSIVE SumCopies(_, _)
SumCopies(S, B) ==
  IF S = {} THEN 0
  ELSE LET w == CHOOSE v \in S : TRUE
       IN  CopiesIn(w, B) + SumCopies(S \ {w}, B)

\* the bag of f[w] for the tasks w of bag B
BagImage(f, B) ==
  LET S == BagToSet(B)
  IN  [v \in {f[w] : w \in S} |-> SumCopies({w \in S : f[w] = v}, B)]

\* the pending tasks after d clock units: every timer has d less to run
TimersAfter(B, d) ==
  BagImage([w \in BagToSet(B) |->
              [w EXCEPT !.delay = IF @ > d THEN @ - d ELSE 0]], B)

\* history: the pending tasks once a call has set enabled to v
SeenDisable(B, v) ==
  IF v THEN B
  ELSE BagImage([w \in BagToSet(B) |-> [w EXCEPT !.seen_disable = TRUE]], B)

Init ==
  /\ now = 0
  /\ animation_epoch = 0
  /\ enabled = FALSE
  /\ active_animation = None
  /\ pending = EmptyBag
  /\ alive = TRUE
  /\ interp = None
  /\ last = Op("new", <<>>, <<>>, 0, 0)

\* next_animation_epoch that hands out the current epoch again
next_animation_epoch_reused == animation_epoch

\* the value next_animation_epoch() stores and returns (the counter is a
\* usize; the runs here stay below MaxEpoch)
next_animation_epoch == animation_epoch + 1

\* start_animation without the check of enabled
start_animation_while_disabled(start_position, end_position) ==
  /\ alive
  /\ IF start_position = end_position
     THEN /\ UNCHANGED <<animation_epoch, active_animation, pending>>
          /\ last' = Op("start_animation", <<start_position, end_position>>,
                        <<>>, 0, 0)
     ELSE LET epoch == next_animation_epoch
          IN  /\ animation_epoch < MaxEpoch
              /\ active_animation' =
                   Some(new_position(start_position, end_position, now))
              /\ animation_epoch' = epoch
              /\ pending' = pending (+) schedule_animation_frame(epoch)
              /\ last' = Op("start_animation",
                            <<start_position, end_position>>, <<>>, 0,
                            BagCardinality(schedule_animation_frame(epoch)))
  /\ UNCHANGED <<now, enabled, alive, interp>>

\* start_animation without the check of equal positions
start_animation_equal_points(start_position, end_position) ==
  /\ alive
  /\ IF ~enabled
     THEN /\ UNCHANGED <<animation_epoch, active_animation, pending>>
          /\ last' = Op("start_animation", <<start_position, end_position>>,
                        <<>>, 0, 0)
     ELSE LET epoch == next_animation_epoch
          IN  /\ animation_epoch < MaxEpoch
              /\ active_animation' =
                   Some(new_position(start_position, end_position, now))
              /\ animation_epoch' = epoch
              /\ pending' = pending (+) schedule_animation_frame(epoch)
              /\ last' = Op("start_animation",
                            <<start_position, end_position>>, <<>>, 0,
                            BagCardinality(schedule_animation_frame(epoch)))
  /\ UNCHANGED <<now, enabled, alive, interp>>

\* start_animation that lets an animation still in flight run on
start_animation_keeps_running(start_position, end_position) ==
  /\ alive
  /\ IF ~enabled \/ start_position = end_position
     THEN /\ UNCHANGED <<animation_epoch, active_animation, pending>>
          /\ last' = Op("start_animation", <<start_position, end_position>>,
                        <<>>, 0, 0)
     ELSE LET epoch == next_animation_epoch
          IN  /\ animation_epoch < MaxEpoch
              /\ active_animation' =
                   IF is_animating THEN active_animation
                   ELSE Some(new_position(start_position, end_position, now))
              /\ animation_epoch' = epoch
              /\ pending' = pending (+) schedule_animation_frame(epoch)
              /\ last' = Op("start_animation",
                            <<start_position, end_position>>, <<>>, 0,
                            BagCardinality(schedule_animation_frame(epoch)))
  /\ UNCHANGED <<now, enabled, alive, interp>>

start_animation(start_position, end_position) ==
  /\ alive
  /\ IF ~enabled \/ start_position = end_position
     THEN /\ UNCHANGED <<animation_epoch, active_animation, pending>>
          /\ last' = Op("start_animation", <<start_position, end_position>>,
                        <<>>, 0, 0)
     ELSE LET epoch == next_animation_epoch
          IN  /\ animation_epoch < MaxEpoch
              /\ active_animation' =
                   Some(new_position(start_position, end_position, now))
              /\ animation_epoch' = epoch
              /\ pending' = pending (+) schedule_animation_frame(epoch)
              /\ last' = Op("start_animation",
                            <<start_position, end_position>>, <<>>, 0,
                            BagCardinality(schedule_animation_frame(epoch)))
  /\ UNCHANGED <<now, enabled, alive, interp>>

\* update_animation without the check of the epoch
update_animation_any_epoch(epoch) ==
  IF ~enabled
  THEN [active |-> active_animation, notify |-> 0, spawn |-> EmptyBag]
  ELSE IF active_animation = None
  THEN [active |-> active_animation, notify |-> 0, spawn |-> EmptyBag]
  ELSE IF is_complete(active_animation[1], now)
  THEN [active |-> None, notify |-> 0, spawn |-> EmptyBag]
  ELSE [active |-> active_animation, notify |-> 1,
        spawn |-> schedule_animation_frame(epoch)]

\* what update_animation(epoch) does: the new active_animation, the number
\* of cx.notify() calls and the tasks it spawns
\* update_animation that asks for the redraw but does not reschedule
update_animation_single_frame(epoch) ==
  IF epoch # animation_epoch \/ ~enabled
  THEN [active |-> active_animation, notify |-> 0, spawn |-> EmptyBag]
  ELSE IF active_animation = None
  THEN [active |-> active_animation, notify |-> 0, spawn |-> EmptyBag]
  ELSE IF is_complete(active_animation[1], now)
  THEN [active |-> None, notify |-> 0, spawn |-> EmptyBag]
  ELSE [active |-> active_animation, notify |-> 1, spawn |-> EmptyBag]

\* update_animation that forces one more redraw as it retires the animation
update_animation_final_redraw(epoch) ==
  IF epoch # animation_epoch \/ ~enabled
  THEN [active |-> active_animation, notify |-> 0, spawn |-> EmptyBag]
  ELSE IF active_animation = None
  THEN [active |-> active_animation, notify |-> 0, spawn |-> EmptyBag]
  ELSE IF is_complete(active_animation[1], now)
  THEN [active |-> None, notify |-> 1, spawn |-> EmptyBag]
  ELSE [active |-> active_animation, notify |-> 1,
        spawn |-> schedule_animation_frame(epoch)]

\* update_animation that goes on polling when it finds nothing stored
update_animation_keeps_polling(epoch) ==
  IF epoch # animation_epoch \/ ~enabled
  THEN [active |-> active_animation, notify |-> 0, spawn |-> EmptyBag]
  ELSE IF active_animation = None
  THEN [active |-> active_animation, notify |-> 0,
        spawn |-> schedule_animation_frame(epoch)]
  ELSE IF is_complete(active_animation[1], now)
  THEN [active |-> None, notify |-> 0,
        spawn |-> schedule_animation_frame(epoch)]
  ELSE [active |-> active_animation, notify |-> 1,
        spawn |-> schedule_animation_frame(epoch)]

update_animation(epoch) ==
  IF epoch # animation_epoch \/ ~enabled
  THEN [active |-> active_animation, notify |-> 0, spawn |-> EmptyBag]
  ELSE IF active_animation = None
  THEN [active |-> active_animation, notify |-> 0, spawn |-> EmptyBag]
  ELSE IF is_complete(active_animation[1], now)
  THEN [active |-> None, notify |-> 0, spawn |-> EmptyBag]
  ELSE [active |-> active_animation, notify |-> 1,
        spawn |-> schedule_animation_frame(epoch)]

\* a task that holds the controller strongly: it runs update_animation
\* whether or not the owner has released the controller
WakeUp_strong_handle(w) ==
  /\ BagIn(w, pending)
  /\ w.delay = 0
  /\ LET did == update_animation(w.epoch)
     IN  /\ active_animation' = did.active
         /\ pending' = (pending (-) SetToBag({w})) (+) did.spawn
         /\ last' = Op("update_animation", <<w>>, <<>>, did.notify,
                       BagCardinality(did.spawn))
  /\ UNCHANGED <<now, animation_epoch, enabled, alive, interp>>

\* a spawned task whose timer has run out resumes: it upgrades its weak
\* handle and, if the controller is still there, calls update_animation
WakeUp(w) ==
  /\ BagIn(w, pending)
  /\ w.delay = 0
  /\ IF alive
     THEN LET did == update_animation(w.epoch)
          IN  /\ active_animation' = did.active
              /\ pending' = (pending (-) SetToBag({w})) (+) did.spawn
              /\ last' = Op("update_animation", <<w>>, <<>>, did.notify,
                            BagCardinality(did.spawn))
     ELSE /\ pending' = pending (-) SetToBag({w})
          /\ last' = Op("upgrade_failed", <<w>>, <<>>, 0, 0)
          /\ UNCHANGED <<active_animation>>
  /\ UNCHANGED <<now, animation_epoch, enabled, alive, interp>>

\* set_enabled that sets the flag alone: the animation is kept, frozen,
\* while disabled
set_enabled_keeps_animation(v) ==
  /\ alive
  /\ enabled' = v
  /\ pending' = SeenDisable(pending, v)
  /\ last' = Op("set_enabled", <<Flag(v)>>, <<>>, 0, 0)
  /\ UNCHANGED <<now, animation_epoch, active_animation, alive, interp>>

\* set_enabled that starts the epochs over when disabling
set_enabled_resets_epoch(v) ==
  /\ alive
  /\ enabled' = v
  /\ active_animation' = IF ~v THEN None ELSE active_animation
  /\ animation_epoch' = IF ~v THEN 0 ELSE animation_epoch
  /\ pending' = SeenDisable(pending, v)
  /\ last' = Op("set_enabled", <<Flag(v)>>, <<>>, 0, 0)
  /\ UNCHANGED <<now, alive, interp>>

\* set_enabled that wakes the controller up when enabling
set_enabled_wakes(v) ==
  /\ alive
  /\ enabled' = v
  /\ active_animation' = IF ~v THEN None ELSE active_animation
  /\ pending' = IF v THEN pending (+) SetToBag({Task(animation_epoch)})
                ELSE SeenDisable(pending, v)
  /\ last' = Op("set_enabled", <<Flag(v)>>, <<>>, 0, 1)
  /\ UNCHANGED <<now, animation_epoch, alive, interp>>

set_enabled(v) ==
  /\ alive
  /\ enabled' = v
  /\ active_animation' = IF ~v THEN None ELSE active_animation
  /\ pending' = SeenDisable(pending, v)
  /\ last' = Op("set_enabled", <<Flag(v)>>, <<>>, 0, 0)
  /\ UNCHANGED <<now, animation_epoch, alive, interp>>

\* an observer that stores the flag and leaves the animation alone
SettingsChanged_flag_only(v) ==
  /\ alive
  /\ enabled' = v
  /\ pending' = SeenDisable(pending, v)
  /\ last' = Op("settings", <<Flag(v)>>, <<>>, 0, 0)
  /\ UNCHANGED <<now, animation_epoch, active_animation, alive, interp>>

\* the observe_global closure of new(), run on a settings change with
\* cursor_smooth_animation = v
SettingsChanged(v) ==
  /\ alive
  /\ IF enabled # v
     THEN /\ enabled' = v
          /\ active_animation' = IF ~v THEN None ELSE active_animation
     ELSE UNCHANGED <<enabled, active_animation>>
  /\ pending' = SeenDisable(pending, v)
  /\ last' = Op("settings", <<Flag(v)>>, <<>>, 0, 0)
  /\ UNCHANGED <<now, animation_epoch, alive, interp>>

\* current_cursor_position that retires a completed animation as it reads
QueryPosition_retiring(static_position) ==
  /\ alive
  /\ last' = Op("current_cursor_position", <<static_position>>,
                <<current_cursor_position(static_position)>>, 0, 0)
  /\ active_animation' =
       IF active_animation # None /\ is_complete(active_animation[1], now)
       THEN None ELSE active_animation
  /\ UNCHANGED <<now, animation_epoch, enabled, pending, alive, interp>>

QueryPosition(static_position) ==
  /\ alive
  /\ last' = Op("current_cursor_position", <<static_position>>,
                <<current_cursor_position(static_position)>>, 0, 0)
  /\ UNCHANGED <<now, animation_epoch, enabled, active_animation, pending,
                 alive, interp>>

QueryAnimating ==
  /\ alive
  /\ last' = Op("is_animating", <<>>, <<Flag(is_animating)>>, 0, 0)
  /\ UNCHANGED <<now, animation_epoch, enabled, active_animation, pending,
                 alive, interp>>

\* the owning entity is released; the detached tasks outlive it
Destroy ==
  /\ alive
  /\ alive' = FALSE
  /\ last' = Op("drop", <<>>, <<>>, 0, 0)
  /\ UNCHANGED <<now, animation_epoch, enabled, active_animation, pending,
                 interp>>

AdvanceTime ==
  /\ now + from_millis(TimeStepMs) <= from_millis(MaxTimeMs)
  /\ now' = now + from_millis(TimeStepMs)
  /\ pending' = TimersAfter(pending, from_millis(TimeStepMs))
  /\ last' = Op("time", <<>>, <<>>, 0, 0)
  /\ UNCHANGED <<animation_epoch, enabled, active_animation, alive, interp>>

Next ==
  \/ \E s \in Points, e \in Points : start_animation(s, e)
  \/ \E w \in BagToSet(pending) : WakeUp(w)
  \/ \E v \in BOOLEAN : set_enabled(v)
  \/ \E v \in BOOLEAN : SettingsChanged(v)
  \/ \E s \in Points : QueryPosition(s)
  \/ QueryAnimating
  \/ Destroy
  \/ AdvanceTime

Spec == Init /\ [][Next]_vars

(***************************************************************************)
(* The controller left to run for ever.  The clock is read only through    *)
(* start_time.elapsed() of the stored animation, and the timers carry      *)
(* their remaining delays, so the reading `now` is moved on only while a   *)
(* live controller stores an animation that is not complete: beyond that   *)
(* no later reading can be told from this one.  Timers run down at every   *)
(* step of the clock.  The executor resumes a task whose timer has run     *)
(* out, and the clock does not stop: both are weakly fair.                 *)
(***************************************************************************)
AdvanceClock ==
  /\ now' = IF /\ alive
               /\ active_animation # None
               /\ ~is_complete(active_animation[1], now)
            THEN now + from_millis(TimeStepMs)
            ELSE now
  /\ pending' = TimersAfter(pending, from_millis(TimeStepMs))
  /\ last' = Op("time", <<>>, <<>>, 0, 0)
  /\ UNCHANGED <<animation_epoch, enabled, active_animation, alive, interp>>

NextFair ==
  \/ \E s \in Points, e \in Points : start_animation(s, e)
  \/ \E w \in BagToSet(pending) : WakeUp(w)
  \/ \E v \in BOOLEAN : set_enabled(v)
  \/ \E v \in BOOLEAN : SettingsChanged(v)
  \/ \E s \in Points : QueryPosition(s)
  \/ QueryAnimating
  \/ Destroy
  \/ AdvanceClock

SpecFair ==
  /\ Init
  /\ [][NextFair]_vars
  /\ WF_vars(AdvanceClock)
  /\ WF_vars(\E w \in BagToSet(pending) : WakeUp(w))

(***************************************************************************)
(* A free-standing AnimatedCursorPosition: built by new(start, end) at     *)
(* instant 0 and read as time passes.                                      *)
(***************************************************************************)
InitInterp ==
  /\ now = 0
  /\ animation_epoch = 0
  /\ enabled = FALSE
  /\ active_animation = None
  /\ pending = EmptyBag
  /\ alive = TRUE
  /\ \E s \in InterpPoints, e \in InterpPoints :
       interp = Some(new_position(s, e, 0))
  /\ last = Op("AnimatedCursorPosition::new", <<>>, <<>>, 0, 0)

Elapse ==
  /\ now < from_millis(MaxElapsedMs)
  /\ now' = now + 1
  /\ last' = Op("time", <<>>, <<>>, 0, 0)
  /\ UNCHANGED <<animation_epoch, enabled, active_animation, pending, alive,
                 interp>>

ReadPosition ==
  /\ last' = Op("current_position", <<>>,
                <<current_position(interp[1], now)>>, 0, 0)
  /\ UNCHANGED <<now, animation_epoch, enabled, active_animation, pending,
                 alive, interp>>

ReadComplete ==
  /\ last' = Op("is_complete", <<>>,
                <<Flag(is_complete(interp[1], now))>>, 0, 0)
  /\ UNCHANGED <<now, animation_epoch, enabled, active_animation, pending,
                 alive, interp>>

NextInterp == Elapse \/ ReadPosition \/ ReadComplete

SpecInterp == InitInterp /\ [][NextInterp]_vars

(***************************************************************************)
(* Properties                                                              *)
(***************************************************************************)
\* the task the last operation resumed
Resumed(op) == op.arg[1]

\* the last operation was update_animation, run by a wake-up task
IsTick(op) == op.op = "update_animation"

\* the last operation was start_animation(s, e)
IsStart(op) == op.op = "start_animation"

\* start_animation went past both checks
EffectiveStart(op) == IsStart(op) /\ op.arg[1] # op.arg[2] /\ enabled

StoredElapsed == now - active_animation[1].start_time

\* C1: once a later effective start_animation has increased the epoch, a
\* wake-up scheduled with an older epoch does nothing when it fires: epoch,
\* enabled and active stay as they are, no redraw is requested and no
\* further wake-up is scheduled (the pending tasks lose the resumed one and
\* gain none).
C1_StaleWakeUpIsNoOp ==
  [][(IsTick(last') /\ Resumed(last').epoch < animation_epoch)
       => /\ UNCHANGED <<animation_epoch, enabled, active_animation>>
          /\ last'.notify = 0
          /\ pending' = pending (-) SetToBag({Resumed(last')})]_vars

\* a stale wake-up has fired while the animation that superseded it was in
\* flight, with no disable in between
C1_Witness ==
  /\ IsTick(last)
  /\ Resumed(last).epoch < animation_epoch
  /\ ~Resumed(last).seen_disable
  /\ is_animating

\* C2: a wake-up that was pending when set_enabled(false), or a settings
\* notification with value false, ran does nothing whenever it fires later
\* (still disabled, re-enabled, or after a later start_animation): no
\* controller state changes, no redraw is requested, no wake-up is scheduled.
C2_DisableInvalidatesWakeUps ==
  [][(IsTick(last') /\ Resumed(last').seen_disable)
       => /\ UNCHANGED <<animation_epoch, enabled, active_animation>>
          /\ last'.notify = 0
          /\ pending' = pending (-) SetToBag({Resumed(last')})]_vars

\* such a wake-up has fired after re-enabling, its epoch still the current one
C2_Witness ==
  /\ IsTick(last)
  /\ Resumed(last).seen_disable
  /\ Resumed(last).epoch = animation_epoch
  /\ enabled

\* C3 as stated: whenever active holds an interpolator, enabled is true and
\* the time elapsed since its start_time is less than the duration.
C3_ActiveNeverComplete ==
  active_animation # None
    => enabled /\ StoredElapsed < from_millis(ANIMATION_DURATION_MS)

\* C3 as amended: whenever active holds an interpolator, enabled is true;
\* and right after a tick of the current epoch, what active holds is not
\* complete (a completed animation stays stored only until that tick).
C3_ActiveOnlyWhileEnabled ==
  /\ active_animation # None => enabled
  /\ (IsTick(last) /\ Resumed(last).epoch = animation_epoch
        /\ active_animation # None)
       => StoredElapsed < from_millis(ANIMATION_DURATION_MS)

\* an animation is stored and has survived a tick of its epoch
C3_Witness ==
  /\ active_animation # None
  /\ IsTick(last)
  /\ Resumed(last).epoch = animation_epoch
  /\ last.notify = 1

\* C4 as stated: start_animation(p, p), in whatever state it is called,
\* leaves is_animating() false and schedules no wake-up.
C4_EqualPointsStopAnimating ==
  [][(IsStart(last') /\ last'.arg[1] = last'.arg[2])
       => ~is_animating' /\ pending' = pending]_vars

\* C4 as amended: start_animation(p, p) leaves is_animating() as it was
\* before the call (false when idle, still true when an animation is in
\* flight) and schedules no wake-up.
C4_EqualPointsChangeNothing ==
  [][(IsStart(last') /\ last'.arg[1] = last'.arg[2])
       => /\ is_animating' = is_animating
          /\ pending' = pending
          /\ last'.spawn = 0]_vars

\* start_animation(p, p) has been called with an animation in flight
C4_Witness ==
  /\ IsStart(last)
  /\ last.arg[1] = last.arg[2]
  /\ is_animating

\* C5 as stated: once the duration has elapsed since an effective
\* start_animation(start, end), current_position() and
\* current_cursor_position(s), for every s, return exactly end.
C5_BothReturnEnd ==
  (active_animation # None /\ is_complete(active_animation[1], now))
    => /\ current_position(active_animation[1], now)
            = active_animation[1].end_point
       /\ \A s \in Points :
            current_cursor_position(s) = active_animation[1].end_point

\* C5 as amended: once the duration has elapsed, current_position() returns
\* exactly end, and current_cursor_position(s) returns s, the position it
\* was passed.
C5_EndThenPassThrough ==
  (active_animation # None /\ is_complete(active_animation[1], now))
    => /\ current_position(active_animation[1], now)
            = active_animation[1].end_point
       /\ \A s \in Points : current_cursor_position(s) = s

\* a completed animation is still stored, and the controller has been asked
\* for the position with a static position other than its end point
C5_Witness ==
  /\ active_animation # None
  /\ StoredElapsed >= from_millis(ANIMATION_DURATION_MS)
  /\ last.op = "current_cursor_position"
  /\ last.arg[1] # active_animation[1].end_point
  /\ last.ret = last.arg

\* C6: set_enabled(false) called with an animation in progress leaves
\* is_animating() false and current_cursor_position(s) = s for every s, and
\* a later set_enabled(true) does not resume the animation.
C6_DisableAbandons ==
  [][/\ (/\ is_animating
         /\ last'.op = "set_enabled"
         /\ last'.arg = <<Flag(FALSE)>>)
          => /\ ~is_animating'
             /\ \A s \in Points : current_cursor_position(s)' = s
             /\ active_animation' = None
     /\ (~enabled /\ last'.op = "set_enabled" /\ last'.arg = <<Flag(TRUE)>>)
          => /\ ~is_animating'
             /\ \A s \in Points : current_cursor_position(s)' = s]_vars

\* the controller has been re-enabled while the wake-up of an animation that
\* a disable abandoned in flight is still pending
C6_Witness ==
  /\ last.op = "set_enabled"
  /\ last.arg = <<Flag(TRUE)>>
  /\ \E w \in BagToSet(pending) :
       w.seen_disable /\ w.epoch = animation_epoch /\ w.delay > 0

\* C7: is_animating() is true exactly when enabled is true and active holds
\* an interpolator whose elapsed time is less than the duration;
\* current_cursor_position(s) returns s when is_animating() is false and the
\* interpolator's current_position() when it is true.
C7_QueriesAgree ==
  /\ is_animating
       <=> (enabled /\ active_animation # None
              /\ StoredElapsed < from_millis(ANIMATION_DURATION_MS))
  /\ \A s \in Points :
       current_cursor_position(s)
         = IF is_animating THEN current_position(active_animation[1], now)
           ELSE s
  /\ last.op = "is_animating"
       => last.ret = <<Flag(enabled /\ active_animation # None
                              /\ StoredElapsed
                                   < from_millis(ANIMATION_DURATION_MS))>>
  /\ (last.op = "current_cursor_position" /\ ~is_animating)
       => last.ret = last.arg

\* the position has been read in the middle of an animation and was not the
\* static position
C7_Witness ==
  /\ is_animating
  /\ StoredElapsed > 0
  /\ last.op = "current_cursor_position"
  /\ last.ret # last.arg

\* C8: current_cursor_position and is_animating are pure reads: they leave
\* epoch, enabled, active and the pending wake-ups unchanged and request no
\* redraw, and a second call with the same argument at the same instant
\* returns what the first returned.
C8_QueriesArePure ==
  [][/\ last'.op \in {"current_cursor_position", "is_animating"}
          => /\ UNCHANGED <<now, animation_epoch, enabled, active_animation,
                            pending>>
             /\ last'.notify = 0
             /\ last'.spawn = 0
     /\ (last.op = last'.op /\ last.arg = last'.arg
           /\ last'.op \in {"current_cursor_position", "is_animating"})
          => last'.ret = last.ret]_vars

\* the position has been read with a completed animation still stored and
\* its wake-up pending
C8_Witness ==
  /\ last.op = "current_cursor_position"
  /\ active_animation # None
  /\ is_complete(active_animation[1], now)
  /\ pending # EmptyBag

\* C9: right after an effective start_animation(start, end), at elapsed time
\* 0, current_cursor_position returns start, also when the call supersedes an
\* animation still in flight.
C9_StartsAtStart ==
  EffectiveStart(last)
    => /\ active_animation # None
       /\ StoredElapsed = 0
       /\ \A s \in Points : current_cursor_position(s) = last.arg[1]

\* an effective start_animation has superseded an animation in flight: the
\* wake-up of the older epoch is pending, its timer running, no disable since
C9_Witness ==
  /\ EffectiveStart(last)
  /\ \E w \in BagToSet(pending) :
       w.epoch < animation_epoch /\ w.delay > 0 /\ ~w.seen_disable
  /\ \A s \in Points : current_cursor_position(s) = last.arg[1]

\* floor(v * 2^20) of an f32 v with |v| < 2^11
Fixed20(v) ==
  IF v.e + 20 >= 0 THEN v.m * 2^(v.e + 20) ELSE v.m \div 2^(-(v.e + 20))

\* the f32 v is a whole multiple of 2^-20
IsFixed20(v) == v.e + 20 >= 0 \/ v.m % 2^(-(v.e + 20)) = 0

\* the whole number an f32 coordinate of InterpPoints stands for
Whole(v) == Fixed20(v) \div 2^20

\* The exact value of s + (e - s) * (1 - (1 - ms/120)^3) for whole s and e,
\* as <<floor(value * 2^20), whether value * 2^20 is whole>>.
\* 1 - (1 - ms/120)^3 = (120^3 - (120 - ms)^3) / 120^3.
ExactEased20(s, e, ms) ==
  LET D  == ANIMATION_DURATION_MS * ANIMATION_DURATION_MS
              * ANIMATION_DURATION_MS
      c  == ANIMATION_DURATION_MS - ms
      p  == (e - s) * (D - c * c * c)
      qr == QuoBits(2 * (p % D), D, 20, 0)
  IN  <<(s + (p \div D)) * 2^20 + qr[1], qr[2] = 0>>

\* the f32 v is exactly the eased value between s and e at ms
EqualsEased(v, s, e, ms) ==
  LET x == ExactEased20(Whole(s), Whole(e), ms)
  IN  x[2] /\ IsFixed20(v) /\ Fixed20(v) = x[1]

\* the f32 v is within 2^-20 * (|s| + |e| + 1) of the eased value
NearEased(v, s, e, ms) ==
  LET x == ExactEased20(Whole(s), Whole(e), ms)
  IN  Abs(Fixed20(v) - x[1]) <= Abs(Whole(s)) + Abs(Whole(e)) + 1

\* the free-standing interpolator was built at instant 0
InterpMs == as_millis(now)

InterpWholeMs == now = from_millis(InterpMs)

\* C10 as stated: at a whole-millisecond elapsed time m < 120,
\* current_position() equals start + (end - start) * (1 - (1 - m/120)^3) on
\* each axis; at elapsed >= 120 it equals end and is_complete() is true.
C10_EqualsEasedValue ==
  LET a == interp[1]
      r == current_position(a, now)
  IN  IF now >= from_millis(ANIMATION_DURATION_MS)
      THEN r = a.end_point /\ is_complete(a, now)
      ELSE InterpWholeMs
             => /\ EqualsEased(r.x, a.start_point.x, a.end_point.x, InterpMs)
                /\ EqualsEased(r.y, a.start_point.y, a.end_point.y, InterpMs)

\* C10 as amended: at a whole-millisecond elapsed time m < 120,
\* current_position() is the value of start + (end - start) * (1 - (1 -
\* m/120)^3) computed in f32, every operation rounded: on each axis it is
\* within 2^-20 * (|start| + |end| + 1) of the exact value, and is_complete()
\* is false.  It is exactly start in the first millisecond, and for
\* start = (0,0), end = (120,0) exactly (105,0) at 60 ms.  At elapsed >= 120
\* it is exactly end and is_complete() is true.  The read operations return
\* these values.
C10_NearEasedValue ==
  LET a == interp[1]
      r == current_position(a, now)
  IN  /\ IF now >= from_millis(ANIMATION_DURATION_MS)
         THEN r = a.end_point /\ is_complete(a, now)
         ELSE /\ ~is_complete(a, now)
              /\ InterpWholeMs
                   => /\ NearEased(r.x, a.start_point.x, a.end_point.x,
                                   InterpMs)
                      /\ NearEased(r.y, a.start_point.y, a.end_point.y,
                                   InterpMs)
      /\ InterpMs = 0 => r = a.start_point
      /\ (a.start_point = Pt(0, 0) /\ a.end_point = Pt(120, 0)
            /\ InterpMs = 60)
           => r = Pt(105, 0)
      /\ last.op = "current_position" => last.ret = <<r>>
      /\ last.op = "is_complete"
           => last.ret = <<Flag(now >= from_millis(ANIMATION_DURATION_MS))>>

\* the interpolator from (0,0) to (120,0) has been read at 60 ms and
\* returned (105,0)
C10_Witness ==
  /\ interp[1].start_point = Pt(0, 0)
  /\ interp[1].end_point = Pt(120, 0)
  /\ now = from_millis(60)
  /\ last.op = "current_position"
  /\ last.ret = <<Pt(105, 0)>>

\* a < b for f32 values
F32Less(a, b) ==
  LET sa == IF a.m = 0 THEN 0 ELSE Sgn(a.m)
      sb == IF b.m = 0 THEN 0 ELSE Sgn(b.m)
  IN  IF sa # sb THEN sa < sb
      ELSE IF sa = 0 THEN FALSE
      ELSE IF a.e # b.e THEN (IF sa > 0 THEN a.e < b.e ELSE a.e > b.e)
      ELSE a.m < b.m

F32Leq(a, b) == a = b \/ F32Less(a, b)

\* v lies between from and to, both included
F32Between(from, v, to) ==
  \/ F32Leq(from, v) /\ F32Leq(v, to)
  \/ F32Leq(to, v) /\ F32Leq(v, from)

\* C11: as the elapsed time of one interpolator grows, the value of
\* current_position() on each axis at the later time lies between its value
\* at the earlier time and the end value, both included: the position never
\* moves back towards start and never passes end.  Stated for each step of
\* the clock, from which it follows for any two times t1 <= t2; every
\* position also lies between start and end.
C11_ApproachesEnd ==
  [][now' > now =>
       LET a  == interp[1]
           v1 == current_position(a, now)
           v2 == current_position(a, now')
       IN  /\ F32Between(v1.x, v2.x, a.end_point.x)
           /\ F32Between(v1.y, v2.y, a.end_point.y)
           /\ F32Between(a.start_point.x, v2.x, a.end_point.x)
           /\ F32Between(a.start_point.y, v2.y, a.end_point.y)]_vars

\* the clock has just advanced, before the duration has elapsed, and the
\* position on both axes has moved strictly closer to end without reaching it
C11_Witness ==
  /\ last.op = "time"
  /\ now < from_millis(ANIMATION_DURATION_MS)
  /\ LET a  == interp[1]
         v1 == current_position(a, now - 1)
         v2 == current_position(a, now)
     IN  /\ v1.x # v2.x /\ v2.x # a.end_point.x
         /\ v1.y # v2.y /\ v2.y # a.end_point.y

\* C12: the epoch grows by exactly one on each effective start_animation
\* (enabled, start # end) and is left as it is by every other operation:
\* start_animation that returns early, set_enabled, a settings notification,
\* a tick, a query, the passing of time.  So it never decreases or resets.
C12_EpochCountsEffectiveStarts ==
  [][IF EffectiveStart(last')
     THEN animation_epoch' = animation_epoch + 1
     ELSE animation_epoch' = animation_epoch]_vars

\* a second effective start_animation has been made after a disable and a
\* re-enable, and the epoch is 2
C12_Witness ==
  /\ EffectiveStart(last)
  /\ animation_epoch = 2
  /\ \E w \in BagToSet(pending) : w.epoch = 1 /\ w.seen_disable

\* the tick of op ran with the current epoch while enabled
CurrentTick(op) ==
  IsTick(op) /\ Resumed(op).epoch = animation_epoch /\ enabled

\* C13: a tick with the current epoch, while enabled, that finds the active
\* animation not yet complete requests exactly one redraw, schedules exactly
\* one further wake-up, tagged with the same epoch and due one frame interval
\* later, and leaves epoch, enabled and active as they were.
C13_InProgressTick ==
  [][(/\ CurrentTick(last')
      /\ active_animation # None
      /\ ~is_complete(active_animation[1], now))
     => /\ last'.notify = 1
        /\ last'.spawn = 1
        /\ pending' = (pending (-) SetToBag({Resumed(last')}))
                        (+) SetToBag({Task(animation_epoch)})
        /\ UNCHANGED <<animation_epoch, enabled, active_animation>>]_vars

\* a tick has just redrawn and rescheduled, part of the way through
C13_Witness ==
  /\ CurrentTick(last)
  /\ last.notify = 1
  /\ last.spawn = 1
  /\ active_animation # None
  /\ StoredElapsed > 0
  /\ BagIn(Task(animation_epoch), pending)

\* C14: a tick with the current epoch, while enabled, that finds the active
\* animation complete makes active absent, requests no redraw and schedules
\* no wake-up; and every redraw is requested at an instant at which an
\* animation is stored whose elapsed time is strictly below the duration.
C14_CompletedTick ==
  [][/\ (/\ CurrentTick(last')
         /\ active_animation # None
         /\ is_complete(active_animation[1], now))
        => /\ active_animation' = None
           /\ last'.notify = 0
           /\ last'.spawn = 0
           /\ pending' = pending (-) SetToBag({Resumed(last')})
     /\ last'.notify > 0
        => /\ active_animation # None
           /\ StoredElapsed < from_millis(ANIMATION_DURATION_MS)
           /\ now' = now]_vars

\* a tick of an undisturbed chain has just retired the animation it found
\* complete
C14_Witness ==
  /\ CurrentTick(last)
  /\ ~Resumed(last).seen_disable
  /\ now >= from_millis(ANIMATION_DURATION_MS)
  /\ active_animation = None
  /\ last.notify = 0
  /\ last.spawn = 0
  /\ pending = EmptyBag

\* a call that can start or stop motion: start_animation, set_enabled, or
\* a settings notification
IsCall(op) == op.op \in {"start_animation", "set_enabled", "settings"}

\* nothing is waiting to wake up and a live controller stores no animation
Quiescent ==
  /\ pending = EmptyBag
  /\ alive => active_animation = None

\* C15: every chain of wake-ups ends: if the calls to start_animation and
\* set_enabled (and the settings notifications) come to an end, while time
\* goes on and every timer that has run out is resumed, then from some
\* point on no wake-up is pending and no animation is stored.  (The clock
\* never stops, so the last operation stays a call only if calls recur.)
C15_ChainsTerminate ==
  <>[](~IsCall(last)) => <>[]Quiescent

\* a chain has run to its end with a superseded chain ending after it
C15_Witness ==
  /\ Quiescent
  /\ alive
  /\ enabled
  /\ IsTick(last)
  /\ Resumed(last).epoch < animation_epoch
  /\ now >= from_millis(ANIMATION_DURATION_MS)

\* C16: start_animation called while disabled, or with start = end, does
\* nothing: epoch, enabled, active and the pending wake-ups are as before,
\* no redraw is requested and nothing is spawned.  So an equal-points call
\* made while an animation is in flight neither replaces it nor clears it.
C16_RefusedStartIsNoOp ==
  [][(IsStart(last') /\ (~enabled \/ last'.arg[1] = last'.arg[2]))
     => /\ UNCHANGED <<animation_epoch, enabled, active_animation, pending>>
        /\ last'.notify = 0
        /\ last'.spawn = 0
        /\ is_animating' = is_animating]_vars

\* start_animation with distinct points has been refused by a disabled
\* controller that still has the wake-up of an abandoned animation pending
C16_Witness ==
  /\ IsStart(last)
  /\ last.arg[1] # last.arg[2]
  /\ ~enabled
  /\ animation_epoch = 1
  /\ active_animation = None
  /\ pending # EmptyBag

\* C17: set_enabled(true) starts nothing: in any state it leaves active,
\* the epoch and the pending wake-ups as they were, requests no redraw and
\* spawns nothing; and is_animating() turns from false to true only by an
\* effective start_animation, so after a disable and an enable it stays
\* false until then.
C17_EnableStartsNothing ==
  [][/\ (last'.op = "set_enabled" /\ last'.arg = <<Flag(TRUE)>>)
        => /\ enabled'
           /\ UNCHANGED <<active_animation, animation_epoch, pending>>
           /\ last'.notify = 0
           /\ last'.spawn = 0
     /\ (~is_animating /\ is_animating') => EffectiveStart(last')]_vars

\* is_animating() has answered false on a controller that was disabled in
\* mid-animation and re-enabled, the old wake-up still pending
C17_Witness ==
  /\ last.op = "is_animating"
  /\ last.ret = <<Flag(FALSE)>>
  /\ enabled
  /\ \E w \in BagToSet(pending) :
       w.seen_disable /\ w.epoch = animation_epoch
  /\ active_animation = None

\* the pending wake-ups as the program holds them: epoch and time to run
Timers(B) ==
  BagImage([w \in BagToSet(B) |-> [epoch |-> w.epoch, delay |-> w.delay]], B)

\* C18: a settings notification that carries v leaves the controller as
\* set_enabled(v) would: enabled is v, active is absent if v is false and
\* untouched if v is true, the epoch and the pending wake-ups are untouched
\* and nothing is redrawn or spawned; this in every reachable state, whether
\* or not v differs from the flag, though the observer writes only if it
\* does.
C18_SettingsActAsSetEnabled ==
  [][\A v \in BOOLEAN :
       (last'.op = "settings" /\ last'.arg = <<Flag(v)>>)
       => /\ enabled' = v
          /\ active_animation' = IF v THEN active_animation ELSE None
          /\ animation_epoch' = animation_epoch
          /\ Timers(pending') = Timers(pending)
          /\ pending' = SeenDisable(pending, v)
          /\ last'.notify = 0
          /\ last'.spawn = 0
          /\ UNCHANGED <<now, alive>>]_vars

\* a notification carrying true has reached a controller that was enabled
\* already and is in mid-animation
C18_Witness ==
  /\ last.op = "settings"
  /\ last.arg = <<Flag(TRUE)>>
  /\ is_animating
  /\ StoredElapsed > 0

\* C19: a wake-up that fires after the controller has been destroyed is
\* dropped: update_animation is not run, no redraw is requested, nothing is
\* spawned and no field changes; the task is gone, and since nothing of a
\* destroyed controller ever spawns, its chains end there.
C19_DroppedAfterDestroy ==
  [][~alive
     => /\ ~IsTick(last')
        /\ last'.notify = 0
        /\ last'.spawn = 0
        /\ UNCHANGED <<animation_epoch, enabled, active_animation, alive>>
        /\ last'.op = "upgrade_failed"
             => pending' = pending (-) SetToBag({Resumed(last')})
        /\ last'.op # "upgrade_failed"
             => Timers(pending') = TimersAfter(Timers(pending),
                                               from_millis(TimeStepMs))]_vars

\* the last task of a controller destroyed in mid-animation has been dropped:
\* had the controller lived, this tick would have redrawn and rescheduled
C19_Witness ==
  /\ last.op = "upgrade_failed"
  /\ ~alive
  /\ enabled
  /\ Resumed(last).epoch = animation_epoch
  /\ active_animation # None
  /\ ~is_complete(active_animation[1], now)
  /\ pending = EmptyBag

\* the number of pending wake-ups tagged with the current epoch
CurrentWakeUps ==
  SumCopies({w \in BagToSet(pending) : w.epoch = animation_epoch}, pending)

\* C20: while the controller lives, at most one pending wake-up carries the
\* current epoch, and exactly one does whenever an animation is stored.
C20_OneChainPerEpoch ==
  alive => /\ CurrentWakeUps <= 1
           /\ active_animation # None => CurrentWakeUps = 1

\* a second animation is stored and has its one wake-up, while the wake-up
\* of the animation it replaced is still pending
C20_Witness ==
  /\ alive
  /\ animation_epoch = 2
  /\ active_animation # None
  /\ CurrentWakeUps = 1
  /\ \E w \in BagToSet(pending) : w.epoch = 1 /\ ~w.seen_disable
  /\ IsTick(last)
  /\ last.spawn = 1

====
